---- MODULE Spec2Model ----
(***************************************************************************)
(* Model of tmp/gen_drawio.py: a script that binds a literal draw.io       *)
(* document to `xml`, makes sure the docs directory exists, writes the     *)
(* document to docs/architecture.drawio through a `with open(..., "w")`    *)
(* block and prints a confirmation.                                        *)
(*                                                                         *)
(* The document is modelled as the sequence of its XML elements, one       *)
(* record per element, in the order of the literal.  A file is a sequence  *)
(* of such records; writes happen in chunks at the writer's own offset.    *)
(***************************************************************************)
EXTENDS Integers, Sequences, FiniteSets

(* ---------------------------------------------------------------------- *)
(* Bounds                                                                  *)
(* ---------------------------------------------------------------------- *)
\* number of runs of the script executed one after the other
NumRuns == 2
\* number of document elements in one block of a write() system call
ChunkSize == 8

(* ---------------------------------------------------------------------- *)
(* The literal document (gen_drawio.py lines 3-144)                        *)
(* ---------------------------------------------------------------------- *)
Elem(tag, id, value, vertex, edge, parent, source, target) ==
    [tag |-> tag, id |-> id, value |-> value, vertex |-> vertex, edge |-> edge,
     parent |-> parent, source |-> source, target |-> target]

Tag(tag, id) == Elem(tag, id, "", "", "", "", "", "")
Vertex(id, value, parent) == Elem("mxCell", id, value, "1", "", parent, "", "")
Edge(id, source, target) == Elem("mxCell", id, "", "", "1", "1", source, target)

XmlProlog ==
    << Tag("mxfile", ""), Tag("diagram", "diagram_1"), Tag("mxGraphModel", ""),
       Tag("root", "") >>

XmlRootCells ==
    << Elem("mxCell", "0", "", "", "", "", "", ""),
       Elem("mxCell", "1", "", "", "", "0", "", "") >>

\* "App Pods" (lines 10-22)
AppNodes ==
    << Vertex("app1", "App Pod 1", "1"),
       Vertex("app2", "App Pod 2", "1"),
       Vertex("appN", "App Pod N", "1"),
       Vertex("admin", "Admin", "1") >>

\* "DBBouncer Container" (lines 24-27)
BouncerContainer == << Vertex("bouncer", "DBBouncer", "1") >>

\* "DBBouncer Internals" (lines 29-59)
BouncerInternals ==
    << Vertex("proxy_pg", "Proxy Server&#10;(PostgreSQL :6432)", "bouncer"),
       Vertex("proxy_my", "Proxy Server&#10;(MySQL :3307)", "bouncer"),
       Vertex("api_server", "REST API&#10;(:8080)", "bouncer"),
       Vertex("router", "Router", "bouncer"),
       Vertex("pool", "Pool Manager", "bouncer"),
       Vertex("health", "Health Checker", "bouncer"),
       Vertex("metrics", "Metrics (Prometheus)", "bouncer"),
       Vertex("config", "Config Watcher", "bouncer") >>

\* "Tenant DBs" (lines 61-70)
TenantNodes ==
    << Vertex("t1", "Tenant 1 DB&#10;(PostgreSQL)", "1"),
       Vertex("t2", "Tenant 2 DB&#10;(MySQL)", "1"),
       Vertex("tN", "Tenant N DB", "1") >>

\* a copied tenant node that kept the identifier of the one it was copied from
XmlNodesDuplicateId ==
    AppNodes \o BouncerContainer \o BouncerInternals
    \o << TenantNodes[1], TenantNodes[2], Vertex("t2", "Tenant N DB", "1") >>

\* the container declared after the nodes it contains
XmlNodesContainerLast ==
    AppNodes \o BouncerInternals \o BouncerContainer \o TenantNodes

XmlNodes == AppNodes \o BouncerContainer \o BouncerInternals \o TenantNodes

\* "Edges" (lines 72-84)
ClientEdges ==
    << Edge("e1", "app1", "proxy_pg"),
       Edge("e2", "app2", "proxy_pg"),
       Edge("e3", "appN", "proxy_my"),
       Edge("e4", "admin", "api_server") >>

\* "Internal Edges" (lines 86-106)
InternalEdges ==
    << Edge("e_px_rt1", "proxy_pg", "router"),
       Edge("e_px_rt2", "proxy_my", "router"),
       Edge("e_rt_pool", "router", "pool"),
       Edge("e_pool_t1", "pool", "t1"),
       Edge("e_pool_t2", "pool", "t2"),
       Edge("e_pool_tN", "pool", "tN") >>

\* "Management Edges" (lines 108-139)
ManagementEdges ==
    << Edge("e_api_rt", "api_server", "router"),
       Edge("e_api_pool", "api_server", "pool"),
       Edge("e_hlth_pool", "health", "pool"),
       Edge("e_hlth_t1", "health", "t1"),
       Edge("e_hlth_t2", "health", "t2"),
       Edge("e_pool_met", "pool", "metrics"),
       Edge("e_cfg_rt", "config", "router"),
       Edge("e_cfg_pool", "config", "pool") >>

\* an edge whose target names a node by a name the document does not declare
XmlEdgesDangling ==
    ClientEdges \o InternalEdges
    \o << Edge("e_hlth_metrics", "health", "prometheus") >> \o ManagementEdges

XmlEdges == ClientEdges \o InternalEdges \o ManagementEdges

XmlEpilog ==
    << Tag("/root", ""), Tag("/mxGraphModel", ""), Tag("/diagram", ""),
       Tag("/mxfile", "") >>

\* the value of the f-string: it has no replacement field, so it is the
\* literal text, element after element in declaration order
XmlLiteral == XmlProlog \o XmlRootCells \o XmlNodes \o XmlEdges \o XmlEpilog

DocsDir == "/Users/jeelk/Documents/GitHub/JeelKantaria/db-bouncer/docs"
OutPath == "/Users/jeelk/Documents/GitHub/JeelKantaria/db-bouncer/docs/architecture.drawio"
Confirmation == "Created /Users/jeelk/Documents/GitHub/JeelKantaria/db-bouncer/docs/architecture.drawio"

(* ---------------------------------------------------------------------- *)
(* Files                                                                   *)
(* ---------------------------------------------------------------------- *)
\* what a reader finds in a range no writer has written (a sparse hole)
Hole == Tag("\\0", "")
\* an element that is not part of the document
Junk == Tag("junk", "")

Min(a, b) == IF a < b THEN a ELSE b
Max(a, b) == IF a > b THEN a ELSE b

NoFile == [kind |-> "absent", data |-> << >>]
DirEntry == [kind |-> "dir", data |-> << >>]
RegularFile(data) == [kind |-> "file", data |-> data]

\* open(path, "a"): the content is kept and the handle starts at its end
OpenForAppend(f) == [file |-> RegularFile(f.data), pos |-> Len(f.data)]

\* open(path, "r+"): the content is kept and the handle starts at offset 0
OpenForUpdate(f) == [file |-> RegularFile(f.data), pos |-> 0]

\* open(path, "w"): O_WRONLY | O_CREAT | O_TRUNC: the content is dropped and
\* the handle starts at offset 0
OpenForWrite(f) == [file |-> RegularFile(<< >>), pos |-> 0]

\* write(fd, chunk) on a descriptor with O_APPEND: the bytes land at the end
\* of the file, whatever the writer's offset
WriteAtEnd(data, pos, chunk) == data \o chunk

\* write(fd, chunk) at offset pos of a file holding data: the bytes land at
\* the writer's own offset, the range between the old end and pos is a hole
WriteAt(data, pos, chunk) ==
    IF chunk = << >> THEN data
    ELSE [i \in 1..Max(Len(data), pos + Len(chunk)) |->
            IF i > pos /\ i <= pos + Len(chunk) THEN chunk[i - pos]
            ELSE IF i <= Len(data) THEN data[i]
            ELSE Hole]

(* ---------------------------------------------------------------------- *)
(* State                                                                   *)
(* ---------------------------------------------------------------------- *)
VARIABLES
    docsDir,   \* what is at DocsDir: "absent", "dir" or "file" (a non-directory)
    file,      \* what is at OutPath: [kind, data]
    env,       \* what the location allows: [mkdirOk, openOk, diskMayFill]
    pc,        \* pc[p]: the statement run p executes next
    xml,       \* xml[p]: the module-level name xml of run p
    handle,    \* handle[p]: the file object f of run p: open or not, its file
               \* offset, and how much of the text it has passed on
    stdout,    \* stdout[p]: the lines run p has printed
    err,       \* err[p]: the statement of run p that raised, or "none"
    trace,     \* trace[p]: the statements run p has completed, in order
    created,   \* created[p]: run p's makedirs made the directory
    prior,     \* prior[p]: what run p found at OutPath when it opened it
    emitted    \* emitted[p]: the content of OutPath when run p ended normally

vars == << docsDir, file, env, pc, xml, handle, stdout, err, trace, created,
           prior, emitted >>

Runs == 1..NumRuns
\* two invocations started side by side
Invocations == {1, 2}

Closed == [open |-> FALSE, pos |-> 0, sent |-> 0]
Unbound == << >>

\* contents OutPath may hold before the first run: empty, shorter than the
\* document, the document, longer than it, and unrelated
PriorContents ==
    { << >>,
      SubSeq(XmlLiteral, 1, 3),
      XmlLiteral,
      XmlLiteral \o << Junk, Junk >>,
      << Junk, Junk, Junk >> }

PriorFiles(dir) ==
    IF dir = "dir"
    THEN {NoFile, DirEntry} \cup {RegularFile(d) : d \in PriorContents}
    ELSE {NoFile}

InitFor(procs) ==
    /\ docsDir \in {"absent", "dir", "file"}
    /\ file \in PriorFiles(docsDir)
    /\ env \in [mkdirOk : BOOLEAN, openOk : BOOLEAN, diskMayFill : BOOLEAN]
    /\ pc = [p \in procs |-> "build"]
    /\ xml = [p \in procs |-> Unbound]
    /\ handle = [p \in procs |-> Closed]
    /\ stdout = [p \in procs |-> << >>]
    /\ err = [p \in procs |-> "none"]
    /\ trace = [p \in procs |-> << >>]
    /\ created = [p \in procs |-> FALSE]
    /\ prior = [p \in procs |-> << >>]
    /\ emitted = [p \in procs |-> << >>]

Init == InitFor(Runs)
InitConcurrent == InitFor(Invocations)

(* ---------------------------------------------------------------------- *)
(* Control flow of the module body                                         *)
(* ---------------------------------------------------------------------- *)
\* the confirmation printed before the file is opened
SuccReportFirst(stmt) ==
    CASE stmt = "build"    -> "makedirs"
      [] stmt = "makedirs" -> "print"
      [] stmt = "print"    -> "open"
      [] stmt = "open"     -> "write"
      [] stmt = "write"    -> "close"
      [] stmt = "close"    -> "done"

\* the statement that follows stmt when stmt raises nothing
Succ(stmt) ==
    CASE stmt = "build"    -> "makedirs"
      [] stmt = "makedirs" -> "open"
      [] stmt = "open"     -> "write"
      [] stmt = "write"    -> "close"
      [] stmt = "close"    -> "print"
      [] stmt = "print"    -> "done"

\* an exception caught and dropped: the run goes on to the confirmation
Swallowed(stmt) == "print"

\* an exception nobody catches ends the run
Uncaught(stmt) == "failed"

\* f = open(...) without with: nothing closes f when the block is left
ExitLeak(h) == h

\* the with block's __exit__: f.close() on the normal and on the raising path
ExitWith(h) == Closed

Terminated(p) == pc[p] \in {"done", "failed"}

\* stmt of run p completes
Completes(p, stmt) ==
    /\ pc' = [pc EXCEPT ![p] = Succ(stmt)]
    /\ trace' = [trace EXCEPT ![p] = Append(trace[p], stmt)]
    /\ UNCHANGED err

\* stmt of run p raises
Raises(p, stmt) ==
    /\ pc' = [pc EXCEPT ![p] = Uncaught(stmt)]
    /\ err' = [err EXCEPT ![p] = stmt]
    /\ UNCHANGED trace

(* ---------------------------------------------------------------------- *)
(* Statements                                                              *)
(* ---------------------------------------------------------------------- *)
\* line 3: xml = f"""..."""
Build(p) ==
    /\ pc[p] = "build"
    /\ xml' = [xml EXCEPT ![p] = XmlLiteral]
    /\ Completes(p, "build")
    /\ UNCHANGED << docsDir, file, env, handle, stdout, created, prior, emitted >>

\* os.makedirs(DocsDir) without exist_ok: an existing directory raises too
MakedirsRaisesIfExists(dir, e) ==
    \/ dir # "absent"
    \/ ~e.mkdirOk

\* os.makedirs(DocsDir, exist_ok=True) raises unless the directory is there
\* afterwards: a non-directory at DocsDir, or no permission to create it
MakedirsRaises(dir, e) ==
    \/ dir = "file"
    \/ dir = "absent" /\ ~e.mkdirOk

\* line 146
Makedirs(p) ==
    /\ pc[p] = "makedirs"
    /\ IF MakedirsRaises(docsDir, env)
       THEN /\ Raises(p, "makedirs")
            /\ UNCHANGED << docsDir, created >>
       ELSE /\ docsDir' = "dir"
            /\ created' = [created EXCEPT ![p] = (docsDir = "absent")]
            /\ Completes(p, "makedirs")
    /\ UNCHANGED << file, env, xml, handle, stdout, prior, emitted >>

\* open(OutPath, "w") raises when the directory is missing, when OutPath is
\* a directory, or when the location is not writable
OpenRaises(dir, f, e) ==
    \/ dir # "dir"
    \/ f.kind = "dir"
    \/ ~e.openOk

\* line 147
Open(p) ==
    /\ pc[p] = "open"
    /\ IF OpenRaises(docsDir, file, env)
       THEN /\ Raises(p, "open")
            /\ UNCHANGED << file, handle, prior >>
       ELSE /\ file' = OpenForWrite(file).file
            /\ handle' = [handle EXCEPT
                            ![p] = [open |-> TRUE, pos |-> OpenForWrite(file).pos,
                                    sent |-> 0]]
            /\ prior' = [prior EXCEPT ![p] = << file >>]
            /\ Completes(p, "open")
    /\ UNCHANGED << docsDir, env, xml, stdout, created, emitted >>

\* the sizes the next write() of a run with `left` elements to go may have:
\* any whole number of blocks of ChunkSize elements (a short write), or all
\* that is left
ChunkSizes(left) == {n \in 0..left : n = left \/ (n > 0 /\ n % ChunkSize = 0)}

\* line 148, f.write(xml): the text reaches the file in one or more chunks,
\* each at the handle's offset; the statement completes with the last one
WriteChunk(p) ==
    /\ pc[p] = "write"
    /\ handle[p].open
    /\ \E n \in ChunkSizes(Len(xml[p]) - handle[p].sent) :
         LET pos == handle[p].pos
             sent == handle[p].sent
             chunk == SubSeq(xml[p], sent + 1, sent + n)
         IN /\ file' = RegularFile(WriteAt(file.data, pos, chunk))
            /\ handle' = [handle EXCEPT ![p].pos = pos + n, ![p].sent = sent + n]
            /\ IF sent + n = Len(xml[p])
               THEN Completes(p, "write")
               ELSE UNCHANGED << pc, trace, err >>
    /\ UNCHANGED << docsDir, env, xml, stdout, created, prior, emitted >>

\* lines 147-148: a write() that fails (disk full), in f.write or in the
\* flush of f.close(), raises inside the with block; __exit__ closes f and
\* the exception propagates
WriteFail(p) ==
    /\ pc[p] \in {"write", "close"}
    /\ handle[p].open
    /\ env.diskMayFill
    /\ handle' = [handle EXCEPT ![p] = ExitWith(handle[p])]
    /\ Raises(p, "write")
    /\ UNCHANGED << docsDir, file, env, xml, stdout, created, prior, emitted >>

\* end of the with block (after line 148): f.close()
CloseFile(p) ==
    /\ pc[p] = "close"
    /\ handle' = [handle EXCEPT ![p] = ExitWith(handle[p])]
    /\ Completes(p, "close")
    /\ UNCHANGED << docsDir, file, env, xml, stdout, created, prior, emitted >>

\* line 150: print("Created ..."), the last statement of the run
Report(p) ==
    /\ pc[p] = "print"
    /\ stdout' = [stdout EXCEPT ![p] = Append(stdout[p], Confirmation)]
    /\ emitted' = [emitted EXCEPT ![p] = file.data]
    /\ Completes(p, "print")
    /\ UNCHANGED << docsDir, file, env, xml, handle, created, prior >>

\* runs one after the other: run p starts when the runs before it have ended
InTurn(p) == \A q \in DOMAIN pc : q < p => Terminated(q)

Next ==
    \E p \in Runs :
        \/ InTurn(p) /\ Build(p)
        \/ InTurn(p) /\ Makedirs(p)
        \/ InTurn(p) /\ Open(p)
        \/ InTurn(p) /\ WriteChunk(p)
        \/ InTurn(p) /\ WriteFail(p)
        \/ InTurn(p) /\ CloseFile(p)
        \/ InTurn(p) /\ Report(p)

\* invocations side by side, any interleaving of their steps
NextConcurrent ==
    \E p \in Invocations :
        \/ Build(p)
        \/ Makedirs(p)
        \/ Open(p)
        \/ WriteChunk(p)
        \/ WriteFail(p)
        \/ CloseFile(p)
        \/ Report(p)

Spec == Init /\ [][Next]_vars
FairSpec == Init /\ [][Next]_vars /\ WF_vars(Next)
SpecConcurrent == InitConcurrent /\ [][NextConcurrent]_vars

(* ---------------------------------------------------------------------- *)
(* Reading a document back                                                 *)
(* ---------------------------------------------------------------------- *)
CellIdx(doc) == {i \in 1..Len(doc) : doc[i].tag = "mxCell"}
NodeIdx(doc) == {i \in CellIdx(doc) : doc[i].vertex = "1"}
EdgeIdx(doc) == {i \in CellIdx(doc) : doc[i].edge = "1"}
NodeIds(doc) == {doc[i].id : i \in NodeIdx(doc)}

IsPrefix(s, t) == Len(s) <= Len(t) /\ s = SubSeq(t, 1, Len(s))

Order == << "build", "makedirs", "open", "write", "close", "print" >>

Succeeded(p) == pc[p] = "done"

\* run p is the one whose step this is
Acts(p) == pc'[p] # pc[p] \/ handle'[p] # handle[p]

\* no run after p has opened the file yet
Latest(p) == \A q \in DOMAIN pc : q > p => prior[q] = << >>

(* ---------------------------------------------------------------------- *)
(* Properties                                                              *)
(* ---------------------------------------------------------------------- *)

\* C1: in the document a successful run leaves in the file, the source and
\* the target of every edge record (edge="1") are identifiers of node
\* records (vertex="1") of the same document.
C1_EdgesReferenceNodes ==
    \A p \in DOMAIN pc :
        Succeeded(p) =>
            \A i \in EdgeIdx(emitted[p]) :
                /\ emitted[p][i].source \in NodeIds(emitted[p])
                /\ emitted[p][i].target \in NodeIds(emitted[p])

\* a run has ended normally and the document it left has all the edges
C1_Witness ==
    \E p \in DOMAIN pc :
        /\ Succeeded(p)
        /\ Cardinality(EdgeIdx(emitted[p])) = Len(XmlEdges)
        /\ NodeIds(emitted[p]) # {}

\* C2: in the document a successful run leaves in the file, no two mxCell
\* records (root cells, nodes, edges) have the same identifier; in
\* particular the node identifiers are pairwise distinct.
C2_CellIdsDistinct ==
    \A p \in DOMAIN pc :
        Succeeded(p) =>
            \A i, j \in CellIdx(emitted[p]) :
                i # j => emitted[p][i].id # emitted[p][j].id

\* a run has ended normally and its document holds root cells, nodes and edges
C2_Witness ==
    \E p \in DOMAIN pc :
        /\ Succeeded(p)
        /\ Cardinality(CellIdx(emitted[p])) = Len(XmlRootCells) + Len(XmlNodes) + Len(XmlEdges)
        /\ Cardinality(NodeIdx(emitted[p])) > 1

\* C3: any two runs that end normally, one after the other with nothing
\* else touching the file system, leave the same file content.
C3_RunsAgree ==
    \A p, q \in DOMAIN pc :
        Succeeded(p) /\ Succeeded(q) => emitted[p] = emitted[q]

\* two runs in a row have ended normally, and they found different things
\* at the output path
C3_Witness ==
    /\ Succeeded(1)
    /\ Succeeded(2)
    /\ prior[1] # prior[2]
    /\ emitted[1] # << >>

\* C4: a run that starts with the directory missing (and creatable) creates
\* it; unless opening or writing the file fails it ends with the directory
\* present, the file holding the document and the confirmation printed; and
\* makedirs on a directory that is already there changes nothing and does
\* not raise.
C4_MissingDirCreated ==
    /\ (pc[1] = "build" /\ docsDir = "absent" /\ env.mkdirOk)
          ~> (created[1] /\ docsDir = "dir" /\ err[1] # "makedirs")
    /\ (pc[1] = "build" /\ docsDir = "absent" /\ env.mkdirOk /\ env.openOk
          /\ ~env.diskMayFill)
          ~> (/\ Succeeded(1)
              /\ created[1]
              /\ docsDir = "dir"
              /\ file = RegularFile(XmlLiteral)
              /\ stdout[1] = << Confirmation >>)
    /\ [](\A p \in DOMAIN pc :
            Succeeded(p) /\ created[p] =>
                /\ docsDir = "dir"
                /\ emitted[p] = XmlLiteral
                /\ stdout[p] = << Confirmation >>)
    /\ [][\A p \in DOMAIN pc :
            pc[p] = "makedirs" /\ docsDir = "dir" /\ Acts(p) =>
                /\ docsDir' = "dir"
                /\ file' = file
                /\ err'[p] = "none"
                /\ ~created'[p]
                /\ trace'[p] = Append(trace[p], "makedirs")]_vars

\* the first run had to create the directory and has ended normally
C4_Witness ==
    /\ Succeeded(1)
    /\ created[1]
    /\ file = RegularFile(XmlLiteral)

\* C5: a run in which makedirs, open or write raises ends in the failed
\* state, stays there, and never prints the confirmation; makedirs and open
\* raise exactly when the location does not allow them; a run whose
\* makedirs raised has neither opened nor changed the file.
C5_FailureIsFatal ==
    /\ [](\A p \in DOMAIN pc :
            err[p] # "none" =>
                /\ pc[p] = "failed"
                /\ stdout[p] = << >>
                /\ emitted[p] = << >>)
    /\ [](\A p \in DOMAIN pc :
            err[p] = "makedirs" => prior[p] = << >> /\ ~handle[p].open)
    /\ [][\A p \in DOMAIN pc :
            pc[p] = "failed" =>
                /\ pc'[p] = "failed"
                /\ stdout'[p] = stdout[p]
                /\ handle'[p] = handle[p]]_vars
    /\ [][\A p \in DOMAIN pc :
            /\ (pc[p] = "makedirs" /\ Acts(p) /\ docsDir # "dir"
                  /\ (docsDir = "file" \/ ~env.mkdirOk))
                  => (pc'[p] = "failed" /\ file' = file /\ docsDir' = docsDir)
            /\ (pc[p] = "open" /\ Acts(p) /\ (file.kind = "dir" \/ ~env.openOk))
                  => (pc'[p] = "failed" /\ file' = file)
            /\ (pc[p] \in {"write", "close"} /\ err'[p] = "write")
                  => (pc'[p] = "failed" /\ ~handle'[p].open)]_vars

\* a run whose open raised because the location is read-only
C5_Witness ==
    \E p \in DOMAIN pc :
        /\ err[p] = "open"
        /\ ~env.openOk
        /\ pc[p] = "failed"

\* C6: a run that ends normally leaves exactly the document in the file,
\* whatever the file held when the run opened it.
C6_Overwrites ==
    \A p \in DOMAIN pc :
        Succeeded(p) =>
            /\ emitted[p] = XmlLiteral
            /\ Latest(p) => file = RegularFile(XmlLiteral)

\* a run has ended normally on a file that held more than the document
C6_Witness ==
    \E p \in DOMAIN pc :
        /\ Succeeded(p)
        /\ prior[p] = << RegularFile(XmlLiteral \o << Junk, Junk >>) >>

\* C7: in the document a successful run leaves in the file, the parent of
\* every node is the canvas cell "1" or a node declared earlier in the
\* document; the only other parent in use is "bouncer", which is a node;
\* the canvas is a cell of the document; the parent of every edge is "1".
C7_ParentsDeclared ==
    \A p \in DOMAIN pc :
        Succeeded(p) =>
            LET doc == emitted[p]
            IN /\ \A i \in NodeIdx(doc) :
                    \/ doc[i].parent = "1"
                    \/ \E j \in NodeIdx(doc) : j < i /\ doc[j].id = doc[i].parent
               /\ {doc[i].parent : i \in NodeIdx(doc)} \subseteq {"1", "bouncer"}
               /\ "bouncer" \in NodeIds(doc)
               /\ \E c \in CellIdx(doc) : doc[c].id = "1" /\ doc[c].parent = "0"
               /\ \A i \in EdgeIdx(doc) : doc[i].parent = "1"

\* a run has ended normally and its document has nodes inside the container
C7_Witness ==
    \E p \in DOMAIN pc :
        /\ Succeeded(p)
        /\ \E i \in NodeIdx(emitted[p]) : emitted[p][i].parent = "bouncer"
        /\ EdgeIdx(emitted[p]) # {}

\* C8: the statements of a run complete in the order build, makedirs, open,
\* write, close, print; xml holds the whole document from the first step on;
\* the file system changes only by a run that has built the document, the
\* file only by a run whose makedirs and open have completed; the
\* confirmation is printed with the file closed and holding the document,
\* and the file still holds it as long as no later run has opened it.
C8_StepOrder ==
    /\ [](\A p \in DOMAIN pc :
            /\ IsPrefix(trace[p], Order)
            /\ trace[p] # << >> => xml[p] = XmlLiteral
            /\ (stdout[p] # << >> /\ Latest(p)) => file = RegularFile(XmlLiteral)
            /\ stdout[p] # << >> => ~handle[p].open /\ trace[p] = Order)
    /\ [][(file' # file \/ docsDir' # docsDir) =>
            \E p \in DOMAIN pc :
                Acts(p) /\ trace[p] # << >> /\ xml[p] = XmlLiteral]_vars
    /\ [][file' # file =>
            \E p \in DOMAIN pc :
                /\ Acts(p)
                /\ handle'[p].open
                /\ IsPrefix(<< "build", "makedirs", "open" >>, trace'[p])]_vars
    /\ [][\A p \in DOMAIN pc :
            stdout'[p] # stdout[p] =>
                /\ file = RegularFile(xml[p])
                /\ ~handle[p].open
                /\ trace[p] = SubSeq(Order, 1, Len(Order) - 1)]_vars

\* a run has printed the confirmation after all its other statements
C8_Witness ==
    \E p \in DOMAIN pc :
        /\ stdout[p] = << Confirmation >>
        /\ trace[p] = Order
        /\ file = RegularFile(XmlLiteral)

\* C9: a run holds the file open only after its open has completed and
\* before its close has; a run that has ended, normally or by an exception
\* of makedirs, open or write, holds no open file.
C9_HandleReleased ==
    \A p \in DOMAIN pc :
        /\ handle[p].open =>
              /\ pc[p] \in {"write", "close"}
              /\ IsPrefix(<< "build", "makedirs", "open" >>, trace[p])
              /\ IsPrefix(trace[p], << "build", "makedirs", "open", "write" >>)
        /\ Terminated(p) => ~handle[p].open
        /\ err[p] # "none" => ~handle[p].open

\* a write has failed after part of the document reached the file
C9_Witness ==
    \E p \in DOMAIN pc :
        /\ err[p] = "write"
        /\ Latest(p)
        /\ file.data # << >>
        /\ file.data # XmlLiteral
        /\ ~handle[p].open

\* C10: when two invocations running side by side have both ended normally,
\* the file holds exactly the document, however their opens and chunk
\* writes were interleaved.
C10_ConcurrentRunsConverge ==
    (Succeeded(1) /\ Succeeded(2)) => file = RegularFile(XmlLiteral)

\* both invocations have ended normally, and when one of them printed its
\* confirmation the file was empty or truncated
C10_Witness ==
    /\ Succeeded(1)
    /\ Succeeded(2)
    /\ \E p \in DOMAIN pc :
          /\ stdout[p] = << Confirmation >>
          /\ emitted[p] # XmlLiteral
          /\ IsPrefix(emitted[p], XmlLiteral)

====
